---- MODULE Spec2Model ----
(***************************************************************************)
(* Model of DWHR_SavingsEstimates.py: drain water heat recovery savings    *)
(* for a folder of draw profiles, in the Equal, Unequal-WaterHeater and    *)
(* Unequal-Fixture configurations.                                         *)
(*                                                                         *)
(* Numbers.  The script computes in IEEE-754 doubles (pandas columns).     *)
(* A double is modelled as a record [t, v]:                                *)
(*    [t |-> "fin", v |-> n]   the finite value n / Scale (fixed point),   *)
(*    [t |-> "inf", v |-> 1]   +inf,   [t |-> "inf", v |-> -1]   -inf,     *)
(*    [t |-> "nan", v |-> 0]   NaN.                                        *)
(* Finite arithmetic is fixed point with three decimals, rounded towards   *)
(* minus infinity; the non-finite cases follow IEEE-754 as numpy applies   *)
(* them (x/0 = +-inf, 0/0 = NaN, 0*inf = NaN, comparisons with NaN false). *)
(* Zero is unsigned: the inputs of the model never divide by a negative    *)
(* zero.                                                                   *)
(***************************************************************************)
EXTENDS Integers, Sequences, FiniteSets, TLC

\* ------------------------------------------------------------------ bounds
MaxDraws == 2
MaxFiles == 2
MaxIter == 101

\* ------------------------------------------------------- number model
Scale == 10 * 10 * 10
LnScale == 2 ^ 15
\* ln(2) in units of 1/LnScale
Ln2 == (6931 * LnScale) \div (10 * Scale)

Fin(n) == [t |-> "fin", v |-> n]
NaN == [t |-> "nan", v |-> 0]
PosInf == [t |-> "inf", v |-> 1]
NegInf == [t |-> "inf", v |-> -1]
\* the value of a column or variable that has not been created yet
Missing == [t |-> "missing", v |-> 0]
\* the outcome of math.log on a value outside its domain
ValueError == [t |-> "ValueError", v |-> 0]

IsFin(a) == a.t = "fin"
Sign(a) == IF a.t = "nan" THEN 0 ELSE IF a.v > 0 THEN 1 ELSE IF a.v < 0 THEN -1 ELSE 0
Inf(s) == [t |-> "inf", v |-> s]

\* floor(a * b / q) for q > 0, without leaving 32 bits while the result fits
MulDiv(a, b, q) == (a \div q) * b + ((a % q) * b) \div q

FMul(a, b) ==
    IF a = NaN \/ b = NaN THEN NaN
    ELSE IF IsFin(a) /\ IsFin(b) THEN Fin(MulDiv(a.v, b.v, Scale))
    ELSE IF Sign(a) * Sign(b) = 0 THEN NaN
    ELSE Inf(Sign(a) * Sign(b))

FDiv(a, b) ==
    IF a = NaN \/ b = NaN THEN NaN
    ELSE IF IsFin(a) /\ IsFin(b) THEN
        IF b.v = 0 THEN (IF a.v = 0 THEN NaN ELSE Inf(Sign(a)))
        ELSE IF b.v > 0 THEN Fin(MulDiv(a.v, Scale, b.v))
        ELSE Fin(MulDiv(-a.v, Scale, -b.v))
    ELSE IF IsFin(a) THEN Fin(0)
    ELSE IF IsFin(b) THEN Inf(Sign(a) * (IF b.v >= 0 THEN 1 ELSE -1))
    ELSE NaN

\* division of a column by an integer literal
FDivInt(a, k) == IF IsFin(a) THEN Fin(a.v \div k) ELSE a

FNeg(a) == IF a = NaN THEN NaN ELSE [t |-> a.t, v |-> -a.v]

FAdd(a, b) ==
    IF a = NaN \/ b = NaN THEN NaN
    ELSE IF IsFin(a) /\ IsFin(b) THEN Fin(a.v + b.v)
    ELSE IF IsFin(a) THEN b
    ELSE IF IsFin(b) THEN a
    ELSE IF a = b THEN a ELSE NaN

FSub(a, b) == FAdd(a, FNeg(b))

FAbs(a) == IF a = NaN THEN NaN ELSE [t |-> a.t, v |-> IF a.v < 0 THEN -a.v ELSE a.v]

FLt(a, b) ==
    IF a = NaN \/ b = NaN THEN FALSE
    ELSE IF a.t = b.t THEN a.v < b.v
    ELSE IF a.t = "inf" THEN a.v < 0
    ELSE b.v > 0

FGe(a, b) == IF a = NaN \/ b = NaN THEN FALSE ELSE ~FLt(a, b)
FLe(a, b) == FGe(b, a)

RECURSIVE FPow(_, _)
FPow(x, i) == IF i = 0 THEN Fin(Scale) ELSE FMul(FPow(x, i - 1), x)

\* range reduction of ln: x = m * 2^k with Scale <= m < 2*Scale
RECURSIVE LnReduce(_, _)
LnReduce(m, k) ==
    IF m >= 2 * Scale THEN LnReduce(m \div 2, k + 1)
    ELSE IF m < Scale THEN LnReduce(m * 2, k - 1)
    ELSE <<m, k>>

\* ln(x / Scale) * Scale for an integer x > 0:
\* ln m = 2 atanh((m-1)/(m+1)) by its series, in units of 1/LnScale
LnFixed(x) ==
    LET r == LnReduce(x, 0)
        m == r[1]
        k == r[2]
        y == ((m - Scale) * LnScale) \div (m + Scale)
        y2 == (y * y) \div LnScale
        y3 == (y * y2) \div LnScale
        y5 == (y3 * y2) \div LnScale
        y7 == (y5 * y2) \div LnScale
        lnm == 2 * (y + (y3 \div 3) + (y5 \div 5) + (y7 \div 7))
    IN  MulDiv(k * Ln2 + lnm, Scale, LnScale)

\* def log(x): return math.log(x)
log(x) ==
    IF x = NaN THEN NaN
    ELSE IF x = PosInf THEN PosInf
    ELSE IF x = NegInf \/ x.v <= 0 THEN ValueError
    ELSE Fin(LnFixed(x.v))

\* pandas Series.sum(): NaN entries are skipped
RECURSIVE SumSkipNa(_)
SumSkipNa(col) ==
    IF col = <<>> THEN Fin(0)
    ELSE LET rest == SumSkipNa(Tail(col))
         IN  IF Head(col) = NaN THEN rest ELSE FAdd(Head(col), rest)

\* pandas Series.max(): NaN entries are skipped, NaN when nothing is left
RECURSIVE MaxSkipNa(_)
MaxSkipNa(col) ==
    IF col = <<>> THEN NaN
    ELSE LET rest == MaxSkipNa(Tail(col))
         IN  IF Head(col) = NaN THEN rest
             ELSE IF rest = NaN THEN Head(col)
             ELSE IF FLt(Head(col), rest) THEN rest ELSE Head(col)

\* the builtin min(a, b) that Series.combine applies element by element
PyMin(a, b) == IF FLt(b, a) THEN b ELSE a

\* np.where(cond, a, b)
Where(cond, a, b) == IF cond THEN a ELSE b

\* ------------------------------------------------------------- inputs
\* the constants of the script, to three decimals
Effectiveness_Rated == Fin(420)
SpecificHeat_Water == Fin(998)
Density_Water == Fin(8318)
Temperature_Shower == Fin(105 * Scale)
Temperature_WaterHeater == Fin(115 * Scale)
Temperature_Drain_Inlet == Fin(100400)
FlowRate_Effectiveness_Minimum == Fin(500)
FlowRate_Effectiveness_Maximum == Fin(7500)
FlowDeltaInitial == Fin(9999 * Scale)
ConvergenceThreshold == Fin(10)
ManouchehriSlope == Fin(345)

\* the coefficient files that np.fromfile may deliver: a constant surface,
\* a bilinear surface 2 - 0.5xy, and an array whose length is not a square
CoefficientFiles ==
    { <<Fin(1000)>>,
      <<Fin(2000), Fin(0), Fin(0), Fin(-500)>>,
      <<Fin(1000), Fin(200)>> }

\* a row of a draw profile as pd.read_csv delivers it
Draw(flow, duration, mains, hot) ==
    [ FlowRate |-> Fin(flow), Duration |-> Fin(duration),
      MainsTemperature |-> Fin(mains), HotWaterFlowRate |-> Fin(hot) ]

Draws ==
    { Draw(1000, 5000, 55000, 500),      \* an ordinary shower draw
      Draw(2000, 10000, 55000, 1990),    \* nearly all of the flow is hot
      Draw(2000, 5000, 55000, 2000),     \* all of the flow is hot
      Draw(1000, 5000, 115000, 500) }    \* mains at the water heater set point

\* the sequences of at most n pairwise different elements of S
RECURSIVE SeqsUpTo(_, _)
SeqsUpTo(S, n) ==
    IF n = 0 THEN { <<>> }
    ELSE LET shorter == SeqsUpTo(S, n - 1)
         IN  shorter \cup UNION { { Append(s, x) : x \in S \ { s[k] : k \in DOMAIN s } } : s \in shorter }

\* the contents a .csv file of the folder may have: at most MaxDraws
\* draws, in any order, no two of them alike
DrawSeries == SeqsUpTo(Draws, MaxDraws)

\* ------------------------------------------------------- pure functions
RECURSIVE ISqrtFrom(_, _)
ISqrtFrom(n, r) == IF (r + 1) * (r + 1) <= n THEN ISqrtFrom(n, r + 1) ELSE r
\* int(np.sqrt(n))
ISqrt(n) == ISqrtFrom(n, 0)

IsPerfectSquare(n) == ISqrt(n) * ISqrt(n) = n

\* the terms zip(m, ij) pairs up, from the k-th on, added to z
RECURSIVE polyval2dFrom(_, _, _, _, _, _)
polyval2dFrom(x, y, m, order, k, z) ==
    IF k > Len(m) \/ k > (order + 1) * (order + 1) THEN z
    ELSE LET i == (k - 1) \div (order + 1)
             j == (k - 1) % (order + 1)
         IN  polyval2dFrom(x, y, m, order, k + 1,
                 FAdd(z, FMul(FMul(m[k], FPow(x, i)), FPow(y, j))))

polyval2d(x, y, m) ==
    LET order == ISqrt(Len(m)) - 1
    IN  polyval2dFrom(x, y, m, order, 1, Fin(0))

\* the function with the 'Equal' branch lost: every configuration goes
\* through the energy balance
Calculate_Fraction_EqualThroughBalance(Flow_Shower, Temperature_Mains, Temp_Shower, Temp_WaterHeater, Configuration) ==
    LET Flow_Drain == Flow_Shower
        Flow_Cold == FDiv(FMul(Flow_Shower, FSub(Temp_Shower, Temp_WaterHeater)),
                          FSub(Temperature_Mains, Temp_WaterHeater))
    IN  IF Configuration = "Unequal_WaterHeater" THEN FSub(Fin(Scale), FDiv(Flow_Cold, Flow_Drain))
        ELSE FDiv(Flow_Cold, Flow_Drain)

Calculate_Fraction_Cold_ThroughDWHR(Flow_Shower, Temperature_Mains, Temp_Shower, Temp_WaterHeater, Configuration) ==
    IF Configuration = "Equal" THEN Fin(Scale)
    ELSE LET Flow_Drain == Flow_Shower
             Flow_Cold == FDiv(FMul(Flow_Shower, FSub(Temp_Shower, Temp_WaterHeater)),
                               FSub(Temperature_Mains, Temp_WaterHeater))
         IN  IF Configuration = "Unequal_Fixture" THEN FDiv(Flow_Cold, Flow_Drain)
             ELSE FSub(Fin(Scale), FDiv(Flow_Cold, Flow_Drain))

\* the two np.where lines that bound a flow rate for the performance map;
\* test is the column the first np.where compares with the minimum
ClampForMap(test, value) ==
    LET low == Where(FGe(test, FlowRate_Effectiveness_Minimum), value, FlowRate_Effectiveness_Minimum)
    IN  Where(FLe(low, FlowRate_Effectiveness_Maximum), low, FlowRate_Effectiveness_Maximum)

\* effectiveness * flow * density * specific heat * (drain inlet - mains)
HeatQuantity(effectiveness, flow, mains) ==
    FMul(FMul(FMul(FMul(effectiveness, flow), Density_Water), SpecificHeat_Water),
         FSub(Temperature_Drain_Inlet, mains))

\* ---------------------------------------------- per-row column updates
\* A row of the data frame Draw_Profile is a record with one field per
\* column; a column the script has not created yet holds Missing.
\* FractionCold_WaterHeater and FractionCold_Fixture are not columns: they
\* record the value the last call of Calculate_Fraction_Cold_ThroughDWHR
\* returned for the row.

\* lines 136-172: the Equal and Unequal-WaterHeater columns of one draw
EvaluateRow(d, m) ==
    LET Flow == d.FlowRate
        Mains == d.MainsTemperature
        Volume == FMul(Flow, d.Duration)
        FlowEffEqual == ClampForMap(Flow, Flow)
        EffEqual == FMul(polyval2d(FlowEffEqual, FlowEffEqual, m), Effectiveness_Rated)
        RateEqual == HeatQuantity(EffEqual, Flow, Mains)
        Fraction == Calculate_Fraction_Cold_ThroughDWHR(Flow, Mains, Temperature_Shower,
                        Temperature_WaterHeater, "Unequal_WaterHeater")
        PotableRate == FMul(Flow, Fraction)
        PotableVolume == FMul(Volume, Fraction)
        FlowColdEff == ClampForMap(Flow, PotableRate)
        EffWH == FMul(polyval2d(FlowEffEqual, FlowColdEff, m), Effectiveness_Rated)
        RateWH == HeatQuantity(EffWH, PotableRate, Mains)
    IN  [ FlowRate |-> Flow,
          Duration |-> d.Duration,
          MainsTemperature |-> Mains,
          HotWaterFlowRate |-> d.HotWaterFlowRate,
          MixedWaterVolume |-> Volume,
          FlowRate_Effectiveness_Equal |-> FlowEffEqual,
          Effectiveness_Equal |-> EffEqual,
          Savings_Equal_Btu |-> HeatQuantity(EffEqual, Volume, Mains),
          HeatTransferRate_Equal |-> RateEqual,
          OutletTemperature_Equal |->
              FAdd(FDiv(RateEqual, FMul(FMul(Flow, Density_Water), SpecificHeat_Water)), Mains),
          FractionCold_WaterHeater |-> Fraction,
          PotableFlowRate_WaterHeater |-> PotableRate,
          PotableFlow_WaterHeater |-> PotableVolume,
          FlowRate_Cold_Effectiveness_WaterHeater |-> FlowColdEff,
          Effectiveness_WaterHeater |-> EffWH,
          Savings_WaterHeater_Btu |-> HeatQuantity(EffWH, PotableVolume, Mains),
          HeatTransferRate_WaterHeater |-> RateWH,
          OutletTemperature_WaterHeater |->
              FAdd(FDiv(RateWH, FMul(FMul(PotableRate, Density_Water), SpecificHeat_Water)), Mains),
          \* lines 183-185: the starting assumptions of the iteration
          OutletTemperature_Fixture |-> Mains,
          FlowDelta |-> FlowDeltaInitial,
          FlowCold_ThroughDWHR |-> FSub(Flow, d.HotWaterFlowRate),
          \* columns of the while loop
          FlowRate_Cold_Effectiveness_Fixture |-> Missing,
          FlowRate_Draw_Effectiveness_Fixture |-> Missing,
          FlowRate_Minimum_Fixture |-> Missing,
          Effectiveness_Draw_Equal |-> Missing,
          HeatRecovered_Draw_Equal |-> Missing,
          HeatRecoveryRate_Equal |-> Missing,
          FlowRatio_Fixture |-> Missing,
          HeatRecoveryRate_Fixture |-> Missing,
          HeatRecovered_Fixture |-> Missing,
          FractionCold_Fixture |-> Missing,
          FlowCold_PostCalculations |-> Missing ]

\* lines 192-206 of the loop body for one draw, up to the flow ratio
BodyRowToRatio(r, m) ==
    LET Cold == r.FlowCold_ThroughDWHR
        ColdEff == ClampForMap(Cold, Cold)
        DrawEff == ClampForMap(r.FlowRate, r.FlowRate)
        FlowMin == PyMin(r.FlowRate, Cold)
        Eff == FMul(polyval2d(ColdEff, ColdEff, m), Effectiveness_Rated)
        RateEqual == HeatQuantity(Eff, FlowMin, r.MainsTemperature)
    IN  [ r EXCEPT
            !.FlowRate_Cold_Effectiveness_Fixture = ColdEff,
            !.FlowRate_Draw_Effectiveness_Fixture = DrawEff,
            !.FlowRate_Minimum_Fixture = FlowMin,
            !.Effectiveness_Draw_Equal = Eff,
            !.HeatRecovered_Draw_Equal = FMul(RateEqual, r.Duration),
            !.HeatRecoveryRate_Equal = RateEqual,
            !.FlowRatio_Fixture = FDiv(r.FlowRate, Cold) ]

\* line 208: .apply(log) raises ValueError for this draw
LogRaises(r) == log(FDiv(r.FlowRate, r.FlowCold_ThroughDWHR)) = ValueError

\* lines 208-218 of the loop body for one draw
BodyRowFromRatio(q) ==
    LET Rate == FMul(q.HeatRecoveryRate_Equal,
                     FAdd(FMul(ManouchehriSlope, log(q.FlowRatio_Fixture)), Fin(Scale)))
        Outlet == FAdd(FDiv(Rate, FMul(FMul(q.FlowCold_ThroughDWHR, SpecificHeat_Water), Density_Water)),
                       q.MainsTemperature)
        Fraction == Calculate_Fraction_Cold_ThroughDWHR(q.FlowRate, Outlet, Temperature_Shower,
                        Temperature_WaterHeater, "Unequal_Fixture")
        Post == FMul(Fraction, q.FlowRate)
    IN  [ q EXCEPT
            !.HeatRecoveryRate_Fixture = Rate,
            !.HeatRecovered_Fixture = FMul(Rate, q.Duration),
            !.OutletTemperature_Fixture = Outlet,
            !.FractionCold_Fixture = Fraction,
            !.FlowCold_PostCalculations = Post,
            !.FlowDelta = FAbs(FSub(q.FlowCold_ThroughDWHR, Post)),
            !.FlowCold_ThroughDWHR = Post ]

\* the loop body with the duration of the first row used for every row
LoopBodyFrameFirstDuration(rows, m) ==
    [ k \in DOMAIN rows |->
        LET r == BodyRowFromRatio(BodyRowToRatio(rows[k], m))
        IN  [ r EXCEPT !.HeatRecovered_Fixture = FMul(r.HeatRecoveryRate_Fixture, rows[1].Duration) ] ]

\* the whole loop body, lines 192-218, applied to every row of the frame
LoopBodyFrame(rows, m) ==
    [ k \in DOMAIN rows |-> BodyRowFromRatio(BodyRowToRatio(rows[k], m)) ]

Column(rows, name) == [ k \in DOMAIN rows |-> rows[k][name] ]

ColumnsBeforeLoop ==
    { "FlowRate", "Duration", "MainsTemperature", "HotWaterFlowRate", "MixedWaterVolume",
      "FlowRate_Effectiveness_Equal", "Effectiveness_Equal", "Savings_Equal_Btu",
      "HeatTransferRate_Equal", "OutletTemperature_Equal",
      "PotableFlowRate_WaterHeater", "PotableFlow_WaterHeater",
      "FlowRate_Cold_Effectiveness_WaterHeater", "Effectiveness_WaterHeater",
      "Savings_WaterHeater_Btu", "HeatTransferRate_WaterHeater", "OutletTemperature_WaterHeater",
      "OutletTemperature_Fixture", "FlowDelta", "FlowCold_ThroughDWHR" }

ColumnsToRatio ==
    { "FlowRate_Cold_Effectiveness_Fixture", "FlowRate_Draw_Effectiveness_Fixture",
      "FlowRate_Minimum_Fixture", "Effectiveness_Draw_Equal", "HeatRecovered_Draw_Equal",
      "HeatRecoveryRate_Equal", "FlowRatio_Fixture" }

ColumnsFromRatio ==
    { "HeatRecoveryRate_Fixture", "HeatRecovered_Fixture", "FlowCold_PostCalculations" }

\* the condition of the while statement, line 190
WhileCondition(rows) == FGe(MaxSkipNa(Column(rows, "FlowDelta")), ConvergenceThreshold)

\* .sum()/100000, lines 151, 172 and 222
Therms(rows, name) == FDivInt(SumSkipNa(Column(rows, name)), 100000)

\* Results.append(Temp) with its result dropped
AppendTempDropped(results, temp) == results

\* Results = Results.append(Temp), line 240
AppendTemp(results, temp) == results \o temp

\* ---------------------------------------------------------------- state
VARIABLES
    Coefficients_Generic_Vertical_Unequal,  \* the array np.fromfile loaded
    Draw_Profiles,                \* the file names glob returned
    fileIdx,                      \* position of the for loop in Draw_Profiles
    i,                            \* the file name the for loop is at
    pc,                           \* "for", "while", "done" or "crashed"
    Draw_Profile,                 \* the data frame: its columns and its rows
    j,                            \* the iteration counter of the while loop
    Savings_Equal,
    Savings_Unequal_WaterHeater,
    Savings_Unequal_Fixture,
    Temp,                         \* the one-row frame the totals are put in
    Results,                      \* the results table
    analyzed,                     \* the _Analyzed.csv files written, by file name
    resultsCsv,                   \* the Results.csv file written
    fractionCall,                 \* arguments of a call of the fraction function
    fractionResult                \* what that call returned

vars == << Coefficients_Generic_Vertical_Unequal, Draw_Profiles, fileIdx, i, pc,
           Draw_Profile, j, Savings_Equal, Savings_Unequal_WaterHeater,
           Savings_Unequal_Fixture, Temp, Results, analyzed, resultsCsv,
           fractionCall, fractionResult >>

programVars == << Coefficients_Generic_Vertical_Unequal, Draw_Profiles, fileIdx, i, pc,
                  Draw_Profile, j, Savings_Equal, Savings_Unequal_WaterHeater,
                  Savings_Unequal_Fixture, Temp, Results, analyzed, resultsCsv >>

\* the state of the script before the for loop, lines 57-130
InitProgram ==
    /\ Draw_Profiles \in { [ k \in 1..n |-> k ] : n \in 0..MaxFiles }
    /\ fileIdx = 1
    /\ i = 0
    /\ pc = "for"
    /\ Draw_Profile = [ columns |-> {}, rows |-> <<>> ]
    /\ j = 0
    /\ Savings_Equal = Missing
    /\ Savings_Unequal_WaterHeater = Missing
    /\ Savings_Unequal_Fixture = Missing
    /\ Temp = <<>>
    /\ Results = <<>>
    /\ analyzed = <<>>
    /\ resultsCsv = Missing

Init ==
    /\ Coefficients_Generic_Vertical_Unequal \in CoefficientFiles
    /\ InitProgram
    /\ fractionCall = Missing
    /\ fractionResult = Missing

\* lines 132-187: the for loop takes the next file, reads it and computes
\* the Equal and Unequal-WaterHeater columns and the starting assumptions
ReadProfile(series) ==
    /\ pc = "for"
    /\ fileIdx <= Len(Draw_Profiles)
    /\ LET rows == [ k \in DOMAIN series |->
                       EvaluateRow(series[k], Coefficients_Generic_Vertical_Unequal) ]
       IN  /\ Draw_Profile' = [ columns |-> ColumnsBeforeLoop, rows |-> rows ]
           /\ Savings_Equal' = Therms(rows, "Savings_Equal_Btu")
           /\ Savings_Unequal_WaterHeater' = Therms(rows, "Savings_WaterHeater_Btu")
    /\ i' = Draw_Profiles[fileIdx]
    /\ fileIdx' = fileIdx + 1
    /\ j' = 0
    /\ pc' = "while"
    /\ UNCHANGED << Coefficients_Generic_Vertical_Unequal, Draw_Profiles,
                    Savings_Unequal_Fixture, Temp, Results, analyzed, resultsCsv,
                    fractionCall, fractionResult >>

\* lines 190-220: one pass of the while loop over all draws.  The script
\* has no test on j; j < MaxIter only bounds the passes that are explored.
LoopBody ==
    /\ pc = "while"
    /\ WhileCondition(Draw_Profile.rows)
    /\ j < MaxIter
    /\ \A k \in DOMAIN Draw_Profile.rows : ~LogRaises(Draw_Profile.rows[k])
    /\ Draw_Profile' =
           [ columns |-> Draw_Profile.columns \cup ColumnsToRatio \cup ColumnsFromRatio,
             rows |-> LoopBodyFrame(Draw_Profile.rows, Coefficients_Generic_Vertical_Unequal) ]
    /\ j' = j + 1
    /\ UNCHANGED << Coefficients_Generic_Vertical_Unequal, Draw_Profiles, fileIdx, i, pc,
                    Savings_Equal, Savings_Unequal_WaterHeater, Savings_Unequal_Fixture,
                    Temp, Results, analyzed, resultsCsv, fractionCall, fractionResult >>

\* lines 190-208: a pass of the while loop in which math.log raises
\* ValueError; the columns of lines 192-206 are assigned and the script ends
LoopBodyRaises ==
    /\ pc = "while"
    /\ WhileCondition(Draw_Profile.rows)
    /\ j < MaxIter
    /\ \E k \in DOMAIN Draw_Profile.rows : LogRaises(Draw_Profile.rows[k])
    /\ Draw_Profile' =
           [ columns |-> Draw_Profile.columns \cup ColumnsToRatio,
             rows |-> [ k \in DOMAIN Draw_Profile.rows |->
                          BodyRowToRatio(Draw_Profile.rows[k], Coefficients_Generic_Vertical_Unequal) ] ]
    /\ pc' = "crashed"
    /\ UNCHANGED << Coefficients_Generic_Vertical_Unequal, Draw_Profiles, fileIdx, i, j,
                    Savings_Equal, Savings_Unequal_WaterHeater, Savings_Unequal_Fixture,
                    Temp, Results, analyzed, resultsCsv, fractionCall, fractionResult >>

\* lines 190, 222-242: the while loop ends, the Unequal-Fixture total is
\* summed, the record of the series is appended and the frame is saved
SumAndSave ==
    /\ pc = "while"
    /\ ~WhileCondition(Draw_Profile.rows)
    /\ "HeatRecovered_Fixture" \in Draw_Profile.columns
    /\ LET total == Therms(Draw_Profile.rows, "HeatRecovered_Fixture")
           row == [ Filename |-> i,
                    Savings_Equal |-> Savings_Equal,
                    Savings_Unequal_WaterHeater |-> Savings_Unequal_WaterHeater,
                    Savings_Unequal_Fixture |-> total ]
       IN  /\ Savings_Unequal_Fixture' = total
           /\ Temp' = << row >>
           /\ Results' = AppendTemp(Results, << row >>)
    /\ analyzed' = (i :> [ rows |-> Draw_Profile.rows, iterations |-> j ]) @@ analyzed
    /\ pc' = "for"
    /\ UNCHANGED << Coefficients_Generic_Vertical_Unequal, Draw_Profiles, fileIdx, i,
                    Draw_Profile, j, Savings_Equal, Savings_Unequal_WaterHeater,
                    resultsCsv, fractionCall, fractionResult >>

\* lines 190, 222: the while loop ends without having run, the column the
\* total reads does not exist and the script ends with KeyError
SumRaises ==
    /\ pc = "while"
    /\ ~WhileCondition(Draw_Profile.rows)
    /\ "HeatRecovered_Fixture" \notin Draw_Profile.columns
    /\ pc' = "crashed"
    /\ UNCHANGED << Coefficients_Generic_Vertical_Unequal, Draw_Profiles, fileIdx, i,
                    Draw_Profile, j, Savings_Equal, Savings_Unequal_WaterHeater,
                    Savings_Unequal_Fixture, Temp, Results, analyzed, resultsCsv,
                    fractionCall, fractionResult >>

\* line 244: after the last file the results table is written
WriteResults ==
    /\ pc = "for"
    /\ fileIdx > Len(Draw_Profiles)
    /\ resultsCsv' = Results
    /\ pc' = "done"
    /\ UNCHANGED << Coefficients_Generic_Vertical_Unequal, Draw_Profiles, fileIdx, i,
                    Draw_Profile, j, Savings_Equal, Savings_Unequal_WaterHeater,
                    Savings_Unequal_Fixture, Temp, Results, analyzed,
                    fractionCall, fractionResult >>

Next ==
    \/ \E series \in DrawSeries : ReadProfile(series)
    \/ LoopBody
    \/ LoopBodyRaises
    \/ SumAndSave
    \/ SumRaises
    \/ WriteResults

Spec == Init /\ [][Next]_vars

\* ------------------------------------- the fraction function on its own
\* the arguments Calculate_Fraction_Cold_ThroughDWHR is applied to
FractionCalls ==
    [ Flow_Shower : { Fin(0), Fin(500), Fin(1000), Fin(2000) },
      Temperature_Mains : { Fin(55000), Fin(105000), Fin(115000), Fin(120000) },
      Temperature_Shower : { Fin(105000), Fin(115000) },
      Temperature_WaterHeater : { Fin(115000), Fin(120000) },
      Configuration : { "Equal", "Unequal_WaterHeater", "Unequal_Fixture" } ]

InitFraction ==
    /\ Coefficients_Generic_Vertical_Unequal = << Fin(1000) >>
    /\ InitProgram
    /\ Draw_Profiles = <<>>
    /\ fractionCall \in FractionCalls
    /\ fractionResult = Missing

ApplyFraction ==
    /\ fractionCall # Missing
    /\ fractionResult = Missing
    /\ fractionResult' = Calculate_Fraction_Cold_ThroughDWHR(fractionCall.Flow_Shower,
                             fractionCall.Temperature_Mains, fractionCall.Temperature_Shower,
                             fractionCall.Temperature_WaterHeater, fractionCall.Configuration)
    /\ UNCHANGED << programVars, fractionCall >>

NextFraction == ApplyFraction

SpecFraction == InitFraction /\ [][NextFraction]_vars

\* ------------------------------------ a folder with one file of one draw
\* draws around the bounds of the performance map, next to those of Draws
MapDraws ==
    Draws \cup
    { Draw(500, 5000, 55000, 250),       \* flow at the lower bound of the map
      Draw(250, 5000, 55000, 100),       \* flow below the lower bound
      Draw(8000, 1000, 55000, 4000) }    \* flow above the upper bound

\* the contents of the file: no draw or one draw
SingleSeries == { <<>> } \cup { << d >> : d \in MapDraws }

InitSingle ==
    /\ Init
    /\ Draw_Profiles = << 1 >>

NextSingle ==
    \/ \E series \in SingleSeries : ReadProfile(series)
    \/ LoopBody
    \/ LoopBodyRaises
    \/ SumAndSave
    \/ SumRaises
    \/ WriteResults

SpecSingle == InitSingle /\ [][NextSingle]_vars

\* ---------------------------------------------------------------- claims
PhysicallyValid(r) ==
    /\ FLt(Fin(0), r.HotWaterFlowRate)
    /\ FLt(r.HotWaterFlowRate, r.FlowRate)
    /\ FLt(r.MainsTemperature, Temperature_Shower)
    /\ FLt(Temperature_Shower, Temperature_WaterHeater)

InUnitInterval(x) == FGe(x, Fin(0)) /\ FLe(x, Fin(Scale))

SameDraw(a, b) ==
    /\ a.FlowRate = b.FlowRate
    /\ a.Duration = b.Duration
    /\ a.MainsTemperature = b.MainsTemperature
    /\ a.HotWaterFlowRate = b.HotWaterFlowRate

SameFixtureResult(a, b) ==
    /\ a.HeatRecovered_Fixture = b.HeatRecovered_Fixture
    /\ a.OutletTemperature_Fixture = b.OutletTemperature_Fixture

\* C1: for every draw series the Unequal-Fixture loop stops after at most
\* a fixed number of iterations (the cap, 100): the iteration counter never
\* passes the cap.
C1_LoopStopsWithinCap == j <= 100

\* C2: when every draw of the series is physically valid (0 < hot flow <
\* flow, mains < shower < water heater temperature), each draw has reached
\* flow_delta < 0.01 once the cap of 100 iterations is used up, and the
\* solver does not end before that.
C2_ValidDrawsConverge ==
    ( /\ \A k \in DOMAIN Draw_Profile.rows : PhysicallyValid(Draw_Profile.rows[k])
      /\ pc \in { "while", "crashed" }
      /\ j >= 100 \/ pc = "crashed" )
    => \A k \in DOMAIN Draw_Profile.rows :
           FLt(Draw_Profile.rows[k].FlowDelta, ConvergenceThreshold)

\* C3: whenever the loop has ended and the total of a series was summed,
\* every draw of that series has flow_delta < 0.01.
C3_AllDrawsConvergedAtExit ==
    \A f \in DOMAIN analyzed : \A k \in DOMAIN analyzed[f].rows :
        FLt(analyzed[f].rows[k].FlowDelta, ConvergenceThreshold)

\* C4: an iteration in which the cold flow estimate of a draw is 0, so that
\* its flow ratio is not a finite number, ends in a reported error: the
\* script does not go on with the draw.
C4_ZeroColdFlowIsReported ==
    \A k \in DOMAIN Draw_Profile.rows :
        ( /\ Draw_Profile.rows[k].FlowRatio_Fixture # Missing
          /\ ~IsFin(Draw_Profile.rows[k].FlowRatio_Fixture) )
        => pc = "crashed"

\* C5: polyval2d with a coefficient array whose length is not a perfect
\* square returns no value: no effectiveness column is ever computed from it.
C5_NonSquareCoefficientsRejected ==
    ~IsPerfectSquare(Len(Coefficients_Generic_Vertical_Unequal))
    => "Effectiveness_Equal" \notin Draw_Profile.columns

\* C6: a call of the fraction function for Unequal-WaterHeater or
\* Unequal-Fixture whose temperature argument equals the water heater
\* temperature returns no fraction.
C6_ZeroDenominatorIsAnError ==
    \A k \in DOMAIN Draw_Profile.rows :
        /\ Draw_Profile.rows[k].MainsTemperature = Temperature_WaterHeater
               => Draw_Profile.rows[k].FractionCold_WaterHeater = Missing
        /\ Draw_Profile.rows[k].OutletTemperature_Fixture = Temperature_WaterHeater
               => Draw_Profile.rows[k].FractionCold_Fixture = Missing

\* C7: every fraction the script's calls of the fraction function return
\* (the Unequal-WaterHeater call and each Unequal-Fixture call of the loop)
\* lies in [0, 1].
C7_FractionInUnitInterval ==
    \A k \in DOMAIN Draw_Profile.rows :
        /\ InUnitInterval(Draw_Profile.rows[k].FractionCold_WaterHeater)
        /\ \/ Draw_Profile.rows[k].FractionCold_Fixture = Missing
           \/ InUnitInterval(Draw_Profile.rows[k].FractionCold_Fixture)

\* C8 as claimed: the Unequal-Fixture result of a draw (heat recovered and
\* cold-side outlet temperature) is the same in every saved series the draw
\* is part of, whatever the other draws and its position.
C8_DrawResultIndependentOfSeries ==
    \A f \in DOMAIN analyzed, g \in DOMAIN analyzed :
        \A k \in DOMAIN analyzed[f].rows, l \in DOMAIN analyzed[g].rows :
            SameDraw(analyzed[f].rows[k], analyzed[g].rows[l])
            => SameFixtureResult(analyzed[f].rows[k], analyzed[g].rows[l])

\* C8 amended: the Unequal-Fixture result of a draw is the same in every
\* two saved series in which the loop ran the same number of iterations,
\* whatever the other draws and its position.
C8_SameIterationsSameResult ==
    \A f \in DOMAIN analyzed, g \in DOMAIN analyzed :
        \A k \in DOMAIN analyzed[f].rows, l \in DOMAIN analyzed[g].rows :
            ( /\ SameDraw(analyzed[f].rows[k], analyzed[g].rows[l])
              /\ analyzed[f].iterations = analyzed[g].iterations )
            => SameFixtureResult(analyzed[f].rows[k], analyzed[g].rows[l])

\* two saved series of different lengths that share a draw, the second with
\* another draw before it, and whose loops ran equally often
C8_Witness ==
    \E f \in DOMAIN analyzed, g \in DOMAIN analyzed :
        /\ Len(analyzed[f].rows) = 1
        /\ Len(analyzed[g].rows) = 2
        /\ SameDraw(analyzed[f].rows[1], analyzed[g].rows[2])
        /\ ~SameDraw(analyzed[g].rows[1], analyzed[g].rows[2])
        /\ analyzed[f].iterations = analyzed[g].iterations
        /\ analyzed[f].iterations > 1

\* C9: the results table holds one record per processed series, in
\* processing order, and each record carries the file name of its series
\* and the three therm totals of that series' own draws.
C9_OneRecordPerSeries ==
    /\ Len(Results) = Cardinality(DOMAIN analyzed)
    /\ pc \in { "for", "done" } => Len(Results) = fileIdx - 1
    /\ \A k \in 1..Len(Results) :
        /\ Results[k].Filename = Draw_Profiles[k]
        /\ Draw_Profiles[k] \in DOMAIN analyzed
        /\ LET rows == analyzed[Draw_Profiles[k]].rows
           IN  /\ Results[k].Savings_Equal = Therms(rows, "Savings_Equal_Btu")
               /\ Results[k].Savings_Unequal_WaterHeater = Therms(rows, "Savings_WaterHeater_Btu")
               /\ Results[k].Savings_Unequal_Fixture = Therms(rows, "HeatRecovered_Fixture")

\* two series processed and written, with different totals
C9_Witness ==
    /\ pc = "done"
    /\ Len(Results) = 2
    /\ resultsCsv = Results
    /\ Results[1].Savings_Unequal_Fixture # Results[2].Savings_Unequal_Fixture
    /\ Results[1].Savings_Equal # Results[2].Savings_Equal

\* C10: the fraction function with configuration 'Equal' returns exactly 1
\* for every flow and every temperatures.
C10_EqualFractionIsOne ==
    ( /\ fractionResult # Missing
      /\ fractionCall.Configuration = "Equal" )
    => fractionResult = Fin(Scale)

\* an 'Equal' call with the mains at the water heater temperature and no flow
C10_Witness ==
    /\ fractionResult # Missing
    /\ fractionCall.Configuration = "Equal"
    /\ fractionCall.Temperature_Mains = fractionCall.Temperature_WaterHeater
    /\ fractionCall.Flow_Shower = Fin(0)

InMapDomain(x) ==
    /\ FGe(x, FlowRate_Effectiveness_Minimum)
    /\ FLe(x, FlowRate_Effectiveness_Maximum)

\* C11: every flow value passed to polyval2d lies in [0.5, 7.5]: the flow
\* of the Equal configuration (also the draw-side flow of
\* Unequal-WaterHeater), the cold-side flow of Unequal-WaterHeater, and the
\* cold-side flow of each pass of the Unequal-Fixture loop.
C11_MapInputsInDomain ==
    \A k \in DOMAIN Draw_Profile.rows :
        /\ InMapDomain(Draw_Profile.rows[k].FlowRate_Effectiveness_Equal)
        /\ InMapDomain(Draw_Profile.rows[k].FlowRate_Cold_Effectiveness_WaterHeater)
        /\ \/ Draw_Profile.rows[k].FlowRate_Cold_Effectiveness_Fixture = Missing
           \/ InMapDomain(Draw_Profile.rows[k].FlowRate_Cold_Effectiveness_Fixture)

\* C12: for every draw series, also one with no draws, the loop body has
\* run at least once when the loop has ended and the Unequal-Fixture total
\* is about to be summed: the heat recovered of every draw, which the total
\* reads, has been computed.
C12_BodyRunsBeforeSum ==
    ( /\ pc = "while"
      /\ ~WhileCondition(Draw_Profile.rows) )
    => /\ j >= 1
       /\ "HeatRecovered_Fixture" \in Draw_Profile.columns
       /\ \A k \in DOMAIN Draw_Profile.rows :
              Draw_Profile.rows[k].HeatRecovered_Fixture # Missing

\* C13: in every pass of the loop and for every draw, the limiting flow
\* that the equal-flow heat rate is computed from is not negative, also
\* when the cold flow estimate left by the pass before is negative.
C13_LimitingFlowNotNegative ==
    \A k \in DOMAIN Draw_Profile.rows :
        \/ Draw_Profile.rows[k].FlowRate_Minimum_Fixture = Missing
        \/ FGe(Draw_Profile.rows[k].FlowRate_Minimum_Fixture, Fin(0))

====
